---- MODULE Spec2Model ----
(***************************************************************************)
(* Model of lib/spack/llnl/util/cpu.py: the micro-architecture entity and  *)
(* its partial order, the construction of the catalog `targets`, the       *)
(* raw-info collectors, host detection and the LazyDictionary.             *)
(*                                                                         *)
(* Python strings that the code parses (cpu, flags, feature names) are     *)
(* sequences of one-character strings.  Results of operations that may     *)
(* raise are the strings "True", "False" or the name of the exception.     *)
(* An optional value (None or an object) is a sequence of length 0 or 1.   *)
(***************************************************************************)
EXTENDS Integers, Sequences, FiniteSets, TLC

VARIABLES
    data,          \* _targets_json['microarchitectures']
    machine,       \* platform.machine()
    system,        \* platform.system()
    info_factory,  \* info_factory: operating system -> list of collectors
    targets,       \* LazyDictionary `targets`: [built, map]
    bstate,        \* position of _known_microarchitectures
    btargets,      \* local dict `targets` of _known_microarchitectures
    visited,       \* names already taken by `for name in data`
    stack,         \* active calls of fill_target_from_dict
    berr,          \* exception that ended the construction
    materialized,  \* how many times each name was assigned in btargets
    dpc,           \* position of detect_host
    cidx,          \* index of the next collector in raw_info_dictionary
    info,          \* local `info` of raw_info_dictionary / detect_host
    invoked,       \* history: collectors called, in order, what the factory
                   \* did (returned) and what the call gave (got)
    result,        \* value returned by detect_host (optional)
    derr,          \* exception raised by detect_host
    cmp,           \* last comparison performed (optional)
    anc,           \* last ancestors computed (optional)
    lz_data,       \* LazyDictionary._data of the shared instance (0 = None)
    lz_pc,         \* per thread: position inside the `data` property
    lz_local,      \* per thread: value returned by the factory, not stored yet
    lz_runs,       \* number of times the factory was called
    lz_seen,       \* per thread: instances its accesses have observed
    lz_left        \* per thread: accesses still to perform

vars == <<data, machine, system, info_factory, targets, bstate, btargets,
          visited, stack, berr, materialized, dpc, cidx, info, invoked,
          result, derr, cmp, anc, lz_data, lz_pc, lz_local, lz_runs,
          lz_seen, lz_left>>

buildVars  == <<targets, bstate, btargets, visited, stack, berr, materialized>>
detectVars == <<dpc, cidx, info, invoked, result, derr>>
orderVars  == <<cmp, anc>>
lazyVars   == <<lz_data, lz_pc, lz_local, lz_runs, lz_seen, lz_left>>
hostVars   == <<data, machine, system, info_factory>>

----------------------------------------------------------------------------
(* Bounds *)

MaxParents == 2      \* longest `from` list of a dataset entry
MaxDepth == 4        \* deepest recursion of fill_target_from_dict
MaxCollectors == 2   \* collectors registered for one operating system
NumThreads == 2      \* threads accessing one LazyDictionary
MaxAccesses == 2     \* accesses each thread performs

----------------------------------------------------------------------------
(* Python strings as sequences of characters *)

S_avx    == <<"a", "v", "x">>
S_avx2   == <<"a", "v", "x", "2">>
S_sse2   == <<"s", "s", "e", "2">>
S_sse4_2 == <<"s", "s", "e", "4", "_", "2">>
S_sp     == <<" ">>
S_POWER  == <<"P", "O", "W", "E", "R">>

Digits == <<"0", "1", "2", "3", "4", "5", "6", "7", "8", "9">>

IsDigit(c) == \E i \in 1..10 : Digits[i] = c

DigitValue(c) == (CHOOSE i \in 1..10 : Digits[i] = c) - 1

IsSpace(c) == c \in {" ", "\t", "\n"}

\* int(s) for a non-empty string of digits
RECURSIVE ParseInt(_)
ParseInt(s) ==
    IF Len(s) = 0 THEN 0
    ELSE 10 * ParseInt(SubSeq(s, 1, Len(s) - 1)) + DigitValue(s[Len(s)])

\* the longest run of digits of s that starts at position i
RECURSIVE DigitRun(_, _)
DigitRun(s, i) ==
    IF i > Len(s) \/ ~IsDigit(s[i]) THEN <<>>
    ELSE <<s[i]>> \o DigitRun(s, i + 1)

\* re.search(r'POWER(\d+)', s): the leftmost match; group(1) or no match
PowerMatchAt(s, i) ==
    /\ i + 5 <= Len(s)
    /\ SubSeq(s, i, i + 4) = S_POWER
    /\ IsDigit(s[i + 5])

re_search_POWER(s) ==
    LET hits == {i \in 1..Len(s) : PowerMatchAt(s, i)}
    IN IF hits = {} THEN <<>>
       ELSE LET first == CHOOSE i \in hits : \A j \in hits : i <= j
            IN <<DigitRun(s, first + 5)>>

\* str.split(): the maximal runs of non-whitespace characters
RECURSIVE SplitFrom(_, _, _)
SplitFrom(s, i, cur) ==
    IF i > Len(s) THEN (IF cur = <<>> THEN <<>> ELSE <<cur>>)
    ELSE IF IsSpace(s[i])
         THEN (IF cur = <<>> THEN <<>> ELSE <<cur>>) \o SplitFrom(s, i + 1, <<>>)
         ELSE SplitFrom(s, i + 1, Append(cur, s[i]))

split(s) == SplitFrom(s, 1, <<>>)

Range(s) == {s[i] : i \in 1..Len(s)}

\* dict.get(key, default)
Get(d, k, default) == IF k \in DOMAIN d THEN d[k] ELSE default

EmptyDict == [k \in {} |-> <<>>]

----------------------------------------------------------------------------
(* MicroArchitecture *)

\* features is a Python set (catalog entries) or a Python list (generic)
PySet(elems)  == [kind |-> "set",  elems |-> elems]
PyList(elems) == [kind |-> "list", elems |-> elems]

MicroArchitecture(name, parents, vendor, features, compilers, generation) ==
    [name |-> name, parents |-> parents, vendor |-> vendor,
     features |-> features, compilers |-> compilers, generation |-> generation]

generic_microarchitecture(name) ==
    MicroArchitecture(name, <<>>, "generic", PyList({}), EmptyDict, 0)

RECURSIVE ancestors(_)
RECURSIVE Eq(_, _)
RECURSIVE ListEq(_, _)
RECURSIVE ExtendNew(_, _)

\* the comparison of two elements by `in` and by list ==: the same object,
\* or equal by __eq__ (the same object is the same value here)
SameOrEq(x, y) == x = y \/ Eq(x, y)

\* x in lst
In(x, lst) == \E i \in 1..Len(lst) : SameOrEq(lst[i], x)

\* value.extend(a for a in more if a not in value)
ExtendNew(value, more) ==
    IF Len(more) = 0 THEN value
    ELSE ExtendNew(IF In(more[1], value) THEN value ELSE Append(value, more[1]),
                   Tail(more))

RECURSIVE AncestorsLoop(_, _)
AncestorsLoop(value, rest) ==
    IF Len(rest) = 0 THEN value
    ELSE AncestorsLoop(ExtendNew(value, ancestors(rest[1])), Tail(rest))

\* the variant whose closure is reflexive: the entity itself is added
ancestors_with_self(self) ==
    Append(AncestorsLoop(self.parents, self.parents), self)

ancestors(self) == AncestorsLoop(self.parents, self.parents)

\* list == list
ListEq(l1, l2) ==
    /\ Len(l1) = Len(l2)
    /\ \A i \in 1..Len(l1) : SameOrEq(l1[i], l2[i])

Eq(self, other) ==
    /\ self.name = other.name
    /\ self.vendor = other.vendor
    /\ self.features = other.features
    /\ ListEq(ancestors(self), ancestors(other))
    /\ self.compilers = other.compilers
    /\ self.generation = other.generation

Bool(b) == IF b THEN "True" ELSE "False"

Not(r) == IF r = "True" THEN "False" ELSE IF r = "False" THEN "True" ELSE r

\* the variant that lets every pair through
ensure_never_raises(self, other) == "ok"

\* _ensure_strictly_orderable: "ok" or the exception raised
ensure_strictly_orderable(self, other) ==
    IF Eq(self, other) THEN "ok"
    ELSE IF ~(In(self, ancestors(other)) \/ In(other, ancestors(self)))
         THEN "ValueError"
         ELSE "ok"

\* the variant that orders an entity below itself and its descendants
lt_reflexive(self, other) ==
    IF ensure_strictly_orderable(self, other) # "ok" THEN "ValueError"
    ELSE Bool(Eq(self, other) \/ In(self, ancestors(other)))

lt(self, other) ==
    IF ensure_strictly_orderable(self, other) # "ok" THEN "ValueError"
    ELSE Bool(In(self, ancestors(other)))

le(self, other) == IF Eq(self, other) THEN "True" ELSE lt(self, other)

gt(self, other) == Not(le(self, other))

ge(self, other) == Not(lt(self, other))

----------------------------------------------------------------------------
(* The dataset: _targets_json['microarchitectures'] *)

Put(d, k, v) == [x \in DOMAIN d \cup {k} |-> IF x = k THEN v ELSE d[x]]

\* the three shapes the schema allows for `from`
FromNull      == [kind |-> "null",   names |-> <<>>]
FromString(p) == [kind |-> "string", names |-> <<p>>]
FromArray(s)  == [kind |-> "array",  names |-> s]

SeqUpTo(S, n) == UNION {[1..k -> S] : k \in 0..n}

FromValues(S) ==
    {FromNull} \cup {FromString(p) : p \in S}
               \cup {FromArray(s) : s \in SeqUpTo(S, MaxParents)}

Entry(from, vendor, features) ==
    [from |-> from, vendor |-> vendor, features |-> features]

EntryGen(from, vendor, features, generation) ==
    [from |-> from, vendor |-> vendor, features |-> features,
     generation |-> generation]

\* datasets over three names whose parent references are arbitrary
CatalogNames == {"x86_64", "haswell", "zen"}

CatalogDatasets ==
    {[n \in CatalogNames |->
        CASE n = "x86_64"  -> Entry(FromNull, "generic", <<>>)
          [] n = "haswell" -> Entry(fh, "GenuineIntel", <<S_avx, S_avx2>>)
          [] n = "zen"     -> Entry(fz, "AuthenticAMD", <<S_avx, S_avx2>>)] :
        fh \in FromValues(CatalogNames), fz \in FromValues(CatalogNames)}

Machines == {"x86_64", "ppc64le", "riscv64"}

AllNames == CatalogNames \cup Machines \cup {"nehalem", "power9le"}

----------------------------------------------------------------------------
(* _known_microarchitectures, run by the first access to `targets` *)

\* the entry of the dict targets.get(p) for a name that is missing
PyNone == MicroArchitecture("None", <<>>, "None", PySet({}), EmptyDict, 0)

\* parent_names of fill_target_from_dict
parent_names(values) == values["from"].names

\* parents = [targets.get(p) for p in parent_names]
parents_of(names, tg) == [i \in 1..Len(names) |-> Get(tg, names[i], PyNone)]

\* the entity fill_target_from_dict stores under `name`
fill_entity(name, values, tg) ==
    MicroArchitecture(name,
                      parents_of(parent_names(values), tg),
                      values["vendor"],
                      PySet(Range(values["features"])),
                      Get(values, "compilers", EmptyDict),
                      Get(values, "generation", 0))

\* the variant that leaves the host platform out of the catalog
setdefault_skipped(tg, host_platform) == tg

\* targets.setdefault(host_platform, generic_microarchitecture(host_platform))
setdefault_host(tg, host_platform) ==
    IF host_platform \in DOMAIN tg THEN tg
    ELSE Put(tg, host_platform, generic_microarchitecture(host_platform))

Unbuilt == [built |-> FALSE, map |-> EmptyDict]

\* LazyDictionary.data finds _data None and calls the factory
StartBuild ==
    /\ ~targets.built
    /\ bstate \in {"idle", "failed"}
    /\ bstate' = "loop"
    /\ btargets' = EmptyDict
    /\ visited' = {}
    /\ stack' = <<>>
    /\ berr' = ""
    /\ materialized' = [n \in AllNames |-> 0]
    /\ UNCHANGED targets

\* one turn of `for name in data`
BuildLoop ==
    /\ bstate = "loop"
    /\ stack = <<>>
    /\ \E name \in DOMAIN data \ visited :
         /\ visited' = visited \cup {name}
         /\ stack' = IF name \in DOMAIN btargets THEN stack
                     ELSE <<[name |-> name, i |-> 1]>>
    /\ UNCHANGED <<targets, bstate, btargets, berr, materialized>>
    /\ UNCHANGED <<hostVars, detectVars, orderVars, lazyVars>>

\* the variant that never materializes a missing parent: it goes on to the
\* next parent name
FillParentWithoutRecursion ==
    /\ bstate = "loop"
    /\ stack # <<>>
    /\ LET top == stack[Len(stack)]
       IN /\ top.i <= Len(parent_names(data[top.name]))
          /\ stack' = [stack EXCEPT ![Len(stack)].i = top.i + 1]
    /\ UNCHANGED <<targets, bstate, berr, btargets, visited, materialized>>
    /\ UNCHANGED <<hostVars, detectVars, orderVars, lazyVars>>

\* fill_target_from_dict looks at the next parent name p
FillParent ==
    /\ bstate = "loop"
    /\ stack # <<>>
    /\ LET top   == stack[Len(stack)]
           names == parent_names(data[top.name])
           next  == [stack EXCEPT ![Len(stack)].i = top.i + 1]
       IN /\ top.i <= Len(names)
          /\ LET p == names[top.i]
             IN IF p \in DOMAIN btargets
                THEN /\ stack' = next
                     /\ UNCHANGED <<bstate, berr>>
                ELSE IF p \notin DOMAIN data
                THEN /\ bstate' = "failed"
                     /\ berr' = "KeyError"
                     /\ stack' = <<>>
                ELSE IF Len(stack) >= MaxDepth
                THEN /\ bstate' = "failed"
                     /\ berr' = "RecursionError"
                     /\ stack' = <<>>
                ELSE /\ stack' = Append(next, [name |-> p, i |-> 1])
                     /\ UNCHANGED <<bstate, berr>>
    /\ UNCHANGED <<targets, btargets, visited, materialized>>
    /\ UNCHANGED <<hostVars, detectVars, orderVars, lazyVars>>

\* fill_target_from_dict stores the entity and returns
FillStore ==
    /\ bstate = "loop"
    /\ stack # <<>>
    /\ LET top == stack[Len(stack)]
       IN /\ top.i > Len(parent_names(data[top.name]))
          /\ btargets' = Put(btargets, top.name,
                             fill_entity(top.name, data[top.name], btargets))
          /\ materialized' = [materialized EXCEPT ![top.name] = @ + 1]
          /\ stack' = SubSeq(stack, 1, Len(stack) - 1)
    /\ UNCHANGED <<targets, bstate, visited, berr>>
    /\ UNCHANGED <<hostVars, detectVars, orderVars, lazyVars>>

\* the loop is over: add the host platform, return, and _data is assigned
BuildReturn ==
    /\ bstate = "loop"
    /\ stack = <<>>
    /\ visited = DOMAIN data
    /\ btargets' = setdefault_host(btargets, machine)
    /\ targets' = [built |-> TRUE, map |-> btargets']
    /\ bstate' = "done"
    /\ UNCHANGED <<visited, stack, berr, materialized>>
    /\ UNCHANGED <<hostVars, detectVars, orderVars, lazyVars>>

----------------------------------------------------------------------------
(* info_factory as the module leaves it after import *)

\* a registered collector: the function info_factory holds (a name and a
\* serial number), and whether that function is the checking wrapper _impl
\* or the bare factory
Collector(fn, checked) == [fn |-> fn, checked |-> checked]

\* what info_dict(operating_system)(factory) appends to info_factory
info_dict_registers(factory) == Collector(factory, FALSE)

InfoFactoryAtImport ==
    [os \in {"Linux", "Darwin"} |->
        IF os = "Linux" THEN <<info_dict_registers(<<"proc_cpuinfo", 0>>)>>
        ELSE <<info_dict_registers(<<"sysctl", 0>>)>>]

----------------------------------------------------------------------------
(* Initial values of each part of the state *)

InitBuild ==
    /\ targets = Unbuilt
    /\ bstate = "idle"
    /\ btargets = EmptyDict
    /\ visited = {}
    /\ stack = <<>>
    /\ berr = ""
    /\ materialized = [n \in AllNames |-> 0]

InitDetect ==
    /\ dpc = "idle"
    /\ cidx = 1
    /\ info = EmptyDict
    /\ invoked = <<>>
    /\ result = <<>>
    /\ derr = ""

InitOrder ==
    /\ cmp = <<>>
    /\ anc = <<>>

Threads == 1..NumThreads

InitLazyIdle ==
    /\ lz_data = 0
    /\ lz_pc = [t \in Threads |-> "idle"]
    /\ lz_local = [t \in Threads |-> 0]
    /\ lz_runs = 0
    /\ lz_seen = [t \in Threads |-> <<>>]
    /\ lz_left = [t \in Threads |-> 0]

----------------------------------------------------------------------------
(* Comparisons and ancestors over the entities of a built catalog *)

\* the entities a caller can hold: the catalog's values and a fresh generic
Entities ==
    {targets.map[n] : n \in DOMAIN targets.map}
        \cup {generic_microarchitecture(machine)}

\* a caller evaluates a == b, a < b, a <= b, a > b, a >= b and b < a
\* (one query in a behaviour: a query leaves the catalog as it was)
Compare ==
    /\ targets.built
    /\ cmp = <<>> /\ anc = <<>>
    /\ \E a \in Entities, b \in Entities :
         cmp' = <<[a |-> a, b |-> b, eq |-> Bool(Eq(a, b)), lt |-> lt(a, b),
                   le |-> le(a, b), gt |-> gt(a, b), ge |-> ge(a, b),
                   rlt |-> lt(b, a)]>>
    /\ UNCHANGED <<hostVars, buildVars, detectVars, anc, lazyVars>>

\* a caller reads a.ancestors
ReadAncestors ==
    /\ targets.built
    /\ cmp = <<>> /\ anc = <<>>
    /\ \E a \in Entities : anc' = <<[of |-> a, value |-> ancestors(a)]>>
    /\ UNCHANGED <<hostVars, buildVars, detectVars, cmp, lazyVars>>

\* the orders in which a caller can list the same parents
Reorderings(parents) ==
    {[i \in 1..Len(parents) |-> parents[f[i]]] :
        f \in {g \in [1..Len(parents) -> 1..Len(parents)] :
                  \A i, j \in 1..Len(parents) : g[i] = g[j] => i = j}}

\* a caller constructs MicroArchitecture(...) itself, from the fields of a
\* catalog entry and that entry's parents in some order, and compares the
\* two objects
CompareConstructed ==
    /\ targets.built
    /\ cmp = <<>> /\ anc = <<>>
    /\ \E a \in Entities :
         \E ps \in Reorderings(a.parents) :
            LET b == MicroArchitecture(a.name, ps, a.vendor, a.features,
                                       a.compilers, a.generation)
            IN cmp' = <<[a |-> a, b |-> b, eq |-> Bool(Eq(a, b)),
                         lt |-> lt(a, b), le |-> le(a, b), gt |-> gt(a, b),
                         ge |-> ge(a, b), rlt |-> lt(b, a)]>>
    /\ UNCHANGED <<hostVars, buildVars, detectVars, anc, lazyVars>>

\* a caller touches `targets` (supported_target_names(), targets[name], ...)
AccessTargets ==
    /\ StartBuild
    /\ UNCHANGED <<hostVars, detectVars, orderVars, lazyVars>>

Init ==
    /\ data \in CatalogDatasets
    /\ machine \in {"x86_64", "riscv64"}
    /\ system = "Linux"
    /\ info_factory = InfoFactoryAtImport
    /\ InitBuild
    /\ InitDetect
    /\ InitOrder
    /\ InitLazyIdle

Next ==
    \/ AccessTargets
    \/ BuildLoop
    \/ FillParent
    \/ FillStore
    \/ BuildReturn
    \/ Compare
    \/ CompareConstructed
    \/ ReadAncestors

Spec == Init /\ [][Next]_vars

----------------------------------------------------------------------------
(* Properties of the order, the ancestors and the catalog *)

InCatalog(e) == \E n \in DOMAIN targets.map : targets.map[n] = e

Comparable(a, b) ==
    Eq(a, b) \/ In(a, ancestors(b)) \/ In(b, ancestors(a))

Booleans == {"True", "False"}

\* C7: for incomparable A and B (A != B, neither among the other's
\* ancestors) each of A < B, A <= B, A > B, A >= B raises; for comparable
\* A and B each of the four returns a boolean.
C7_OrderingRaisesIffIncomparable ==
    cmp # <<>> =>
        LET c == cmp[1]
            four == {c.lt, c.le, c.gt, c.ge}
        IN IF Comparable(c.a, c.b)
           THEN four \subseteq Booleans
           ELSE four = {"ValueError"}

C7_Witness ==
    /\ cmp # <<>>
    /\ cmp[1].a.name = "haswell"
    /\ cmp[1].b.name = "zen"
    /\ ~Comparable(cmp[1].a, cmp[1].b)
    /\ cmp[1].ge = "ValueError"

\* C8: for comparable entities A and B of a catalog exactly one of
\* A < B, A == B, B < A holds.
C8_Trichotomy ==
    (cmp # <<>> /\ InCatalog(cmp[1].a) /\ InCatalog(cmp[1].b)
                /\ Comparable(cmp[1].a, cmp[1].b)) =>
        LET c == cmp[1]
        IN Cardinality({k \in {"lt", "eq", "rlt"} : c[k] = "True"}) = 1

C8_Witness ==
    /\ cmp # <<>>
    /\ InCatalog(cmp[1].a) /\ InCatalog(cmp[1].b)
    /\ cmp[1].a.name = "x86_64"
    /\ cmp[1].b.name = "zen"
    /\ Len(ancestors(cmp[1].b)) = 2
    /\ cmp[1].lt = "True"

NamesOf(lst) == [i \in 1..Len(lst) |-> lst[i].name]

NoDuplicates(s) == \A i, j \in 1..Len(s) : i # j => s[i] # s[j]

\* the order the claim describes, by names: the direct parents in their
\* listed order, then for each parent in turn those of its ancestors that
\* are not present yet
RECURSIVE AppendAbsent(_, _)
AppendAbsent(value, more) ==
    IF more = <<>> THEN value
    ELSE AppendAbsent(IF more[1] \in Range(value) THEN value
                      ELSE Append(value, more[1]), Tail(more))

RECURSIVE ParentsThenTheirs(_, _)
ParentsThenTheirs(value, rest) ==
    IF rest = <<>> THEN value
    ELSE ParentsThenTheirs(AppendAbsent(value, NamesOf(ancestors(rest[1]))),
                           Tail(rest))

\* C9: ancestors(A) contains no duplicate names; as a set it is the union
\* of parents(A) and ancestors(P) for every parent P; the direct parents
\* come first in their listed order, then each parent's ancestors that are
\* not already present.
C9_AncestorsNoDuplicatesOrdered ==
    anc # <<>> =>
        LET a == anc[1].of
            v == anc[1].value
        IN /\ NoDuplicates(NamesOf(v))
           /\ Range(v) = Range(a.parents)
                 \cup UNION {Range(ancestors(a.parents[i])) :
                                i \in 1..Len(a.parents)}
           /\ NamesOf(v) = ParentsThenTheirs(NamesOf(a.parents), a.parents)

\* the part of C9 that does not depend on the parents being listed once
C9_SetAndOrder ==
    anc # <<>> =>
        LET a == anc[1].of
            v == anc[1].value
        IN /\ Range(v) = Range(a.parents)
                 \cup UNION {Range(ancestors(a.parents[i])) :
                                i \in 1..Len(a.parents)}
           /\ NamesOf(v) = ParentsThenTheirs(NamesOf(a.parents), a.parents)
           /\ (NoDuplicates(NamesOf(a.parents)) => NoDuplicates(NamesOf(v)))

\* the names an entry of the dataset reaches through `from`
DataParents(n) ==
    IF n \in DOMAIN data THEN Range(parent_names(data[n])) ELSE {}

RECURSIVE ReachFrom(_, _)
ReachFrom(S, k) ==
    IF k = 0 THEN S
    ELSE ReachFrom(S \cup UNION {DataParents(m) : m \in S}, k - 1)

DataReach(n) == ReachFrom(DataParents(n), Cardinality(DOMAIN data))

\* C10: in every catalog that construction produces, from any schema-valid
\* dataset, no entry is a member of its own ancestor closure: the parent
\* graph of the catalog is acyclic (a dataset whose parent references form
\* a cycle produces no catalog).
C10_CatalogAcyclic ==
    targets.built =>
        /\ \A n \in DOMAIN targets.map :
              LET e == targets.map[n]
              IN /\ e.name \notin Range(NamesOf(ancestors(e)))
                 /\ ~In(e, ancestors(e))
        /\ \A n \in DOMAIN data : n \notin DataReach(n)

C10_Witness ==
    /\ targets.built
    /\ {"x86_64", "haswell", "zen"} \subseteq DOMAIN targets.map
    /\ NamesOf(ancestors(targets.map["zen"])) = <<"haswell", "x86_64">>
    /\ NamesOf(targets.map["zen"].parents) = <<"haswell">>

----------------------------------------------------------------------------
(* Raw-info records and the collectors *)

S_flags_haswell == S_sse4_2 \o S_sp \o S_avx \o S_sp \o S_avx2
S_cpu_power9 == S_POWER \o <<"9", ",", " ", "a", "l", "t", "i", "v", "e", "c">>
S_cpu_power8 == S_POWER \o <<"8">>

RequiredFields == {"vendor_id", "flags", "model", "model_name"}

\* all four required fields
InfoIntelFull ==
    [k \in RequiredFields |->
        CASE k = "vendor_id"  -> "GenuineIntel"
          [] k = "flags"      -> S_flags_haswell
          [] k = "model"      -> "60"
          [] k = "model_name" -> "Intel Core"]

\* the first entry of /proc/cpuinfo on x86: the key is "model name"
InfoIntelProc ==
    [k \in {"vendor_id", "flags", "model", "model name"} |->
        CASE k = "vendor_id"  -> "GenuineIntel"
          [] k = "flags"      -> S_sse4_2
          [] k = "model"      -> "26"
          [] k = "model name" -> "Intel Xeon"]

\* the first entry of /proc/cpuinfo on Power
InfoPower9 ==
    [k \in {"cpu", "revision"} |->
        IF k = "cpu" THEN S_cpu_power9 ELSE "2.2"]

InfoPower8 ==
    [k \in {"cpu", "revision"} |->
        IF k = "cpu" THEN S_cpu_power8 ELSE "2.0"]

InfoRecords == {EmptyDict, InfoIntelFull, InfoIntelProc, InfoPower9, InfoPower8}

\* what a call of a factory does: raise, or return a record
Raises(exc)  == [raised |-> TRUE,  exc |-> exc,  rec |-> EmptyDict]
Returns(rec) == [raised |-> FALSE, exc |-> "",   rec |-> rec]

Outcomes == {Raises("IOError")} \cup {Returns(r) : r \in InfoRecords}

\* _impl of info_dict: the factory's record, checked for the mandatory fields
impl(outcome) ==
    IF outcome.raised THEN outcome
    ELSE IF ~(RequiredFields \subseteq DOMAIN outcome.rec)
         THEN Raises("AssertionError")
         ELSE outcome

\* calling an element of info_factory[...]
call_collector(c, outcome) == IF c.checked THEN impl(outcome) ELSE outcome

\* the variant of the loop that never leaves early
loop_never_breaks(i) == FALSE

\* `if info: break` of raw_info_dictionary
loop_breaks(i) == DOMAIN i # {}

\* try: info = factory() / except Exception: pass
info_after_call(i, outcome) == IF outcome.raised THEN i ELSE outcome.rec

\* info_factory[platform.system()] of a defaultdict(list)
Factories == Get(info_factory, system, <<>>)

\* another module registers a collector for the running system
RegisterCollector ==
    /\ dpc = "idle"
    /\ Len(Factories) < MaxCollectors
    /\ info_factory' =
          Put(info_factory, system,
              Append(Factories,
                     info_dict_registers(<<"custom", Len(Factories) + 1>>)))
    /\ UNCHANGED <<data, machine, system, buildVars, detectVars, orderVars,
                   lazyVars>>

\* detect_host() is called and enters raw_info_dictionary()
DetectStart ==
    /\ dpc = "idle"
    /\ dpc' = "collect"
    /\ cidx' = 1
    /\ info' = EmptyDict
    /\ invoked' = <<>>
    /\ UNCHANGED <<result, derr, hostVars, buildVars, orderVars, lazyVars>>

\* one turn of `for factory in info_factory[platform.system()]`
CollectCall ==
    /\ dpc = "collect"
    /\ cidx <= Len(Factories)
    /\ \E o \in Outcomes :
         LET c   == Factories[cidx]
             got == call_collector(c, o)
         IN /\ info' = info_after_call(info, got)
            /\ invoked' = Append(invoked, [c |-> c, returned |-> o, got |-> got])
            /\ IF loop_breaks(info')
               THEN dpc' = "compat" /\ cidx' = cidx
               ELSE dpc' = dpc /\ cidx' = cidx + 1
    /\ UNCHANGED <<result, derr, hostVars, buildVars, orderVars, lazyVars>>

\* the loop ran out of collectors: raw_info_dictionary returns info
CollectReturn ==
    /\ dpc = "collect"
    /\ cidx > Len(Factories)
    /\ dpc' = "compat"
    /\ UNCHANGED <<cidx, info, invoked, result, derr, hostVars, buildVars,
                   orderVars, lazyVars>>

----------------------------------------------------------------------------
(* Compatibility checks and detect_host *)

IsException(r) == r \notin Booleans

\* target == arch_root or arch_root in target.ancestors
InFamily(target, arch_root) ==
    Eq(target, arch_root) \/ In(arch_root, ancestors(target))

\* compatibility_check_for_power(info, target), with targets = tg
compatibility_check_for_power(i, target, tg) ==
    LET generation_match == re_search_POWER(Get(i, "cpu", <<>>))
    IN IF generation_match = <<>> THEN "AttributeError"
       ELSE IF machine \notin DOMAIN tg THEN "KeyError"
       ELSE LET generation == ParseInt(generation_match[1])
                arch_root  == tg[machine]
            IN Bool(InFamily(target, arch_root)
                    /\ target.generation <= generation)

\* compatibility_check_for_x86_64(info, target), with targets = tg
compatibility_check_for_x86_64(i, target, tg) ==
    LET vendor   == Get(i, "vendor_id", "generic")
        features == Range(split(Get(i, "flags", <<>>)))
    IN IF "x86_64" \notin DOMAIN tg THEN "KeyError"
       ELSE IF ~InFamily(target, tg["x86_64"]) THEN "False"
       ELSE IF ~(target.vendor = vendor \/ target.vendor = "generic")
            THEN "False"
       ELSE IF target.features.kind # "set" THEN "AttributeError"
       ELSE Bool(target.features.elems \subseteq features)

\* the keys of compatibility_checks after import
Registered == {"ppc64le", "ppc64", "x86_64"}

\* compatibility_checks.get(architecture_family, lambda x, y: False)
tester(family, i, target, tg) ==
    IF family \in {"ppc64le", "ppc64"}
    THEN compatibility_check_for_power(i, target, tg)
    ELSE IF family = "x86_64"
    THEN compatibility_check_for_x86_64(i, target, tg)
    ELSE "False"

Values(tg) == {tg[n] : n \in DOMAIN tg}

\* compatible_microarchitectures(info): the exceptions the filter can end
\* with (the order of targets.values() decides which), else the candidates
compatible_raises(i, tg) ==
    {r \in {tester(machine, i, x, tg) : x \in Values(tg)} : IsException(r)}

compatible_microarchitectures(i, tg) ==
    LET passing == {x \in Values(tg) : tester(machine, i, x, tg) = "True"}
    IN IF passing # {} THEN passing
       ELSE {generic_microarchitecture(machine)}

\* the variant that sorts without reverse=True
shallowest(candidates) ==
    {t \in candidates :
        \A u \in candidates : Len(ancestors(t)) <= Len(ancestors(u))}

\* sorted(candidates, key=lambda t: len(t.ancestors), reverse=True)[0]:
\* the sort is stable, so among the deepest it is the first of the list
deepest(candidates) ==
    {t \in candidates :
        \A u \in candidates : Len(ancestors(t)) >= Len(ancestors(u))}

\* compatible_microarchitectures touches `targets` for the first time
DetectAccessTargets ==
    /\ dpc = "compat"
    /\ StartBuild
    /\ UNCHANGED <<hostVars, detectVars, orderVars, lazyVars>>

\* the construction of `targets` raised: detect_host raises it too
DetectBuildFailed ==
    /\ dpc = "compat"
    /\ bstate = "failed"
    /\ dpc' = "raised"
    /\ derr' = berr
    /\ UNCHANGED <<cidx, info, invoked, result, hostVars, buildVars,
                   orderVars, lazyVars>>

\* compatible_microarchitectures(info) and the choice of the best candidate
DetectSelect ==
    /\ dpc = "compat"
    /\ targets.built
    /\ \/ /\ \E e \in compatible_raises(info, targets.map) :
               /\ dpc' = "raised"
               /\ derr' = e
          /\ UNCHANGED result
       \/ /\ compatible_raises(info, targets.map) = {}
          /\ \E t \in deepest(compatible_microarchitectures(info, targets.map)) :
               result' = <<t>>
          /\ dpc' = "done"
          /\ UNCHANGED derr
    /\ UNCHANGED <<cidx, info, invoked, hostVars, buildVars, orderVars,
                   lazyVars>>

----------------------------------------------------------------------------
(* Datasets for host detection: entries of the two built-in families *)

DetectPool ==
    {[name |-> "x86_64",
      values |-> Entry(FromNull, "generic", <<>>)],
     [name |-> "x86_64",
      values |-> Entry(FromNull, "generic", <<S_sse2>>)],
     [name |-> "nehalem",
      values |-> Entry(FromString("x86_64"), "GenuineIntel", <<S_sse4_2>>)],
     [name |-> "haswell",
      values |-> Entry(FromString("x86_64"), "GenuineIntel", <<S_avx, S_avx2>>)],
     [name |-> "haswell",
      values |-> Entry(FromArray(<<"nehalem">>), "GenuineIntel",
                       <<S_avx, S_avx2>>)],
     [name |-> "ppc64le",
      values |-> Entry(FromNull, "generic", <<>>)],
     [name |-> "power9le",
      values |-> EntryGen(FromString("ppc64le"), "IBM", <<>>, 9)]}

DetectDatasets ==
    {[n \in {e.name : e \in S} |-> (CHOOSE e \in S : e.name = n).values] :
        S \in {T \in SUBSET DetectPool :
                  \A e1, e2 \in T : e1.name = e2.name => e1 = e2}}

InitDetectHost ==
    /\ data \in DetectDatasets
    /\ machine \in Machines
    /\ system \in {"Linux", "Windows"}
    /\ info_factory = InfoFactoryAtImport
    /\ InitBuild
    /\ InitDetect
    /\ InitOrder
    /\ InitLazyIdle

NextDetect ==
    \/ RegisterCollector
    \/ DetectStart
    \/ CollectCall
    \/ CollectReturn
    \/ DetectAccessTargets
    \/ BuildLoop
    \/ FillParent
    \/ FillStore
    \/ BuildReturn
    \/ DetectBuildFailed
    \/ DetectSelect

SpecDetect == InitDetectHost /\ [][NextDetect]_vars

----------------------------------------------------------------------------
(* Properties of host detection *)

\* detect_host has ended and the catalog exists
Detected == dpc \in {"done", "raised"} /\ targets.built

\* the catalog entries for which the host's registered predicate holds
Satisfying ==
    {x \in Values(targets.map) : tester(machine, info, x, targets.map) = "True"}

\* C1: for every catalog, host machine type, operating system and outcome
\* of the collectors, detect_host() returns a Microarchitecture: it never
\* raises and never returns an empty result.
C1_DetectAlwaysReturns ==
    /\ (dpc = "raised" => ~targets.built)
    /\ (dpc = "done" => Len(result) = 1)

\* the catalog of the example: an x86_64 root without features and haswell
ExampleData ==
    [n \in {"x86_64", "haswell"} |->
        IF n = "x86_64" THEN Entry(FromNull, "generic", <<>>)
        ELSE Entry(FromString("x86_64"), "GenuineIntel", <<S_avx, S_avx2>>)]

\* C2: whenever some catalog entry satisfies the predicate registered for
\* the host's family, detect_host() returns a catalog entry that satisfies
\* it and whose ancestor closure is at least as large as that of every
\* other satisfying entry; in the example catalog, flags "sse4_2 avx avx2"
\* give haswell and flags "sse4_2" give the x86_64 root.
C2_ReturnsDeepestCompatible ==
    /\ (Detected /\ machine \in Registered /\ Satisfying # {}) =>
          /\ dpc = "done"
          /\ result[1] \in Satisfying
          /\ \A u \in Satisfying :
                Len(ancestors(result[1])) >= Len(ancestors(u))
    /\ (Detected /\ machine = "x86_64" /\ data = ExampleData) =>
          /\ info = InfoIntelFull => dpc = "done" /\ result[1].name = "haswell"
          /\ info = InfoIntelProc => dpc = "done" /\ result[1].name = "x86_64"

C2_Witness ==
    /\ dpc = "done"
    /\ machine = "x86_64"
    /\ info = InfoIntelFull
    /\ {"x86_64", "nehalem", "haswell"} \subseteq DOMAIN targets.map
    /\ Cardinality(Satisfying) = 3
    /\ result[1].name = "haswell"
    /\ Len(ancestors(result[1])) = 2

\* C3: if no predicate is registered for the host's machine type, or the
\* registered predicate holds for no catalog entry, detect_host() raises
\* no error and returns an entity equal to generic_microarchitecture(machine):
\* name the machine type, no parents, empty features, vendor "generic".
C3_GenericFallback ==
    (Detected /\ (machine \notin Registered \/ Satisfying = {})) =>
        /\ dpc = "done"
        /\ Eq(result[1], generic_microarchitecture(machine))
        /\ result[1].name = machine
        /\ result[1].parents = <<>>
        /\ result[1].features.elems = {}
        /\ result[1].vendor = "generic"

\* the part of C3 about the runs in which no predicate raises
C3_GenericFallbackWhenReturning ==
    (dpc = "done" /\ (machine \notin Registered \/ Satisfying = {})) =>
        /\ Eq(result[1], generic_microarchitecture(machine))
        /\ result[1].name = machine
        /\ result[1].parents = <<>>
        /\ result[1].features.elems = {}
        /\ result[1].vendor = "generic"

\* raw_info_dictionary() has returned
Collected == dpc \in {"compat", "done", "raised"}

Incomplete(rec) == DOMAIN rec # {} /\ ~(RequiredFields \subseteq DOMAIN rec)

\* C4: when a collector returns a non-empty record that lacks a required
\* field, raw_info_dictionary() treats the attempt as failed: it does not
\* return that record and goes on to the next collector.
C4_IncompleteRecordIsFailure ==
    \A k \in 1..Len(invoked) :
        (~invoked[k].returned.raised /\ Incomplete(invoked[k].returned.rec)) =>
            /\ Collected => info # invoked[k].returned.rec
            /\ (Collected /\ k < Len(Factories)) => Len(invoked) > k

Succeeded(k) == ~invoked[k].got.raised /\ DOMAIN invoked[k].got.rec # {}

\* C5: the collectors of the running system are invoked in registration
\* order; one that raises counts as failed and the next is tried; the
\* result is the record of the first that returns a non-empty record, no
\* collector after that one is invoked, and the result is the empty record
\* when none succeeds.
C5_FirstSuccessfulCollector ==
    /\ Len(invoked) <= Len(Factories)
    /\ \A k \in 1..Len(invoked) : invoked[k].c = Factories[k]
    /\ \A k \in 1..Len(invoked) : Succeeded(k) => k = Len(invoked)
    /\ Collected =>
          IF \E k \in 1..Len(invoked) : Succeeded(k)
          THEN info = invoked[Len(invoked)].got.rec
          ELSE /\ Len(invoked) = Len(Factories)
               /\ info = EmptyDict

C5_Witness ==
    /\ Collected
    /\ Len(Factories) = 2
    /\ Len(invoked) = 2
    /\ invoked[1].got.raised
    /\ invoked[2].c.fn = <<"custom", 2>>
    /\ info = InfoIntelFull

----------------------------------------------------------------------------
(* LazyDictionary accessed by several threads.  The interpreter may switch *)
(* threads between the test `self._data is None`, the call of the factory, *)
(* the assignment and the final read.  Each run of the factory makes a new *)
(* dictionary, numbered by the run.                                        *)

\* a thread starts an access (__getitem__, __iter__, ...): the data property
LzBegin(t) ==
    /\ lz_pc[t] = "idle"
    /\ lz_left[t] > 0
    /\ lz_pc' = [lz_pc EXCEPT ![t] = "check"]
    /\ UNCHANGED <<lz_data, lz_local, lz_runs, lz_seen, lz_left>>
    /\ UNCHANGED <<hostVars, buildVars, detectVars, orderVars>>

\* if self._data is None
LzCheck(t) ==
    /\ lz_pc[t] = "check"
    /\ lz_pc' = [lz_pc EXCEPT ![t] = IF lz_data = 0 THEN "call" ELSE "return"]
    /\ UNCHANGED <<lz_data, lz_local, lz_runs, lz_seen, lz_left>>
    /\ UNCHANGED <<hostVars, buildVars, detectVars, orderVars>>

\* self.factory(*self.args, **self.kwargs)
LzFactory(t) ==
    /\ lz_pc[t] = "call"
    /\ lz_runs' = lz_runs + 1
    /\ lz_local' = [lz_local EXCEPT ![t] = lz_runs + 1]
    /\ lz_pc' = [lz_pc EXCEPT ![t] = "store"]
    /\ UNCHANGED <<lz_data, lz_seen, lz_left>>
    /\ UNCHANGED <<hostVars, buildVars, detectVars, orderVars>>

\* self._data = <the factory's result>
LzStore(t) ==
    /\ lz_pc[t] = "store"
    /\ lz_data' = lz_local[t]
    /\ lz_pc' = [lz_pc EXCEPT ![t] = "return"]
    /\ UNCHANGED <<lz_local, lz_runs, lz_seen, lz_left>>
    /\ UNCHANGED <<hostVars, buildVars, detectVars, orderVars>>

\* return self._data
LzReturn(t) ==
    /\ lz_pc[t] = "return"
    /\ lz_seen' = [lz_seen EXCEPT ![t] = Append(@, lz_data)]
    /\ lz_left' = [lz_left EXCEPT ![t] = @ - 1]
    /\ lz_pc' = [lz_pc EXCEPT ![t] = "idle"]
    /\ UNCHANGED <<lz_data, lz_local, lz_runs>>
    /\ UNCHANGED <<hostVars, buildVars, detectVars, orderVars>>

InitLazy ==
    /\ data = ExampleData
    /\ machine = "x86_64"
    /\ system = "Linux"
    /\ info_factory = InfoFactoryAtImport
    /\ InitBuild
    /\ InitDetect
    /\ InitOrder
    /\ lz_data = 0
    /\ lz_pc = [t \in Threads |-> "idle"]
    /\ lz_local = [t \in Threads |-> 0]
    /\ lz_runs = 0
    /\ lz_seen = [t \in Threads |-> <<>>]
    /\ lz_left \in [Threads -> 0..MaxAccesses]

NextLazy ==
    \/ \E t \in Threads : LzBegin(t)
    \/ \E t \in Threads : LzCheck(t)
    \/ \E t \in Threads : LzFactory(t)
    \/ \E t \in Threads : LzStore(t)
    \/ \E t \in Threads : LzReturn(t)

SpecLazy == InitLazy /\ [][NextLazy]_vars

\* the instances the accesses of all threads have observed
Observed == UNION {Range(lz_seen[t]) : t \in Threads}

\* C6: for any interleaving of accesses by one or more threads to a lazily
\* constructed dictionary, the factory runs at most once and every access
\* observes the same completed instance.
C6_FactoryRunsAtMostOnce ==
    /\ lz_runs <= 1
    /\ Cardinality(Observed) <= 1
    /\ 0 \notin Observed

\* what holds of the same accesses when a single thread performs them
C6_SingleThreadRunsOnce ==
    Cardinality({t \in Threads : lz_left[t] > 0 \/ lz_seen[t] # <<>>}) <= 1 =>
        /\ lz_runs <= 1
        /\ Cardinality(Observed) <= 1
        /\ 0 \notin Observed

----------------------------------------------------------------------------
(* The x86_64 compatibility predicate *)

\* the whitespace-separated tokens of a string, stated without split():
\* the maximal substrings that hold no whitespace
Tokens(s) ==
    {SubSeq(s, i, j) : <<i, j>> \in
        {p \in (1..Len(s)) \X (1..Len(s)) :
            /\ p[1] <= p[2]
            /\ \A k \in p[1]..p[2] : ~IsSpace(s[k])
            /\ (p[1] = 1 \/ IsSpace(s[p[1] - 1]))
            /\ (p[2] = Len(s) \/ IsSpace(s[p[2] + 1]))}}

HostFlags == IF "flags" \in DOMAIN info THEN Tokens(info["flags"]) ELSE {}

\* the three conditions of the claim for a candidate x of the catalog
InX86Family(x) ==
    /\ "x86_64" \in DOMAIN targets.map
    /\ \/ Eq(x, targets.map["x86_64"])
       \/ In(targets.map["x86_64"], ancestors(x))

VendorMatches(x) ==
    \/ ("vendor_id" \in DOMAIN info /\ x.vendor = info["vendor_id"])
    \/ x.vendor = "generic"

FeaturesWithinFlags(x) == x.features.elems \subseteq HostFlags

\* C11: the x86_64 predicate holds for (raw_info, candidate) if and only if
\* the candidate is in the x86_64 family, its vendor is the host's vendor_id
\* or "generic", and its features are a subset of the whitespace-separated
\* tokens of the host's flags.
C11_X86PredicateIffThreeConditions ==
    (Detected /\ machine = "x86_64") =>
        \A x \in Values(targets.map) :
            (compatibility_check_for_x86_64(info, x, targets.map) = "True")
                <=> (InX86Family(x) /\ VendorMatches(x) /\ FeaturesWithinFlags(x))

\* the same equivalence for the candidates whose features are a set, as
\* those built from the dataset are
C11_HoldsForDatasetEntries ==
    (Detected /\ machine = "x86_64") =>
        \A x \in Values(targets.map) :
            x.features.kind = "set" =>
                /\ compatibility_check_for_x86_64(info, x, targets.map) \in Booleans
                /\ (compatibility_check_for_x86_64(info, x, targets.map) = "True")
                      <=> (InX86Family(x) /\ VendorMatches(x)
                                          /\ FeaturesWithinFlags(x))

----------------------------------------------------------------------------
(* Equality *)

AncestorSet(e) == Range(ancestors(e))

\* the six things the claim names, compared one by one, the ancestors as a set
SixMatch(a, b) ==
    /\ a.name = b.name
    /\ a.vendor = b.vendor
    /\ a.features = b.features
    /\ AncestorSet(a) = AncestorSet(b)
    /\ a.compilers = b.compilers
    /\ a.generation = b.generation

\* C12: two entities are equal if and only if their name, vendor, features,
\* computed ancestor set, compilers and generation all match, also when they
\* are separately constructed objects whose parents are listed in a
\* different order.
C12_EqualIffSixMatch ==
    cmp # <<>> => (cmp[1].eq = "True" <=> SixMatch(cmp[1].a, cmp[1].b))

\* the direction that holds: equal entities match on all six, and entities
\* whose ancestors are the same list are equal exactly when the six match
C12_EqualImpliesSixMatch ==
    cmp # <<>> =>
        /\ cmp[1].eq = "True" => SixMatch(cmp[1].a, cmp[1].b)
        /\ ancestors(cmp[1].a) = ancestors(cmp[1].b) =>
              (cmp[1].eq = "True" <=> SixMatch(cmp[1].a, cmp[1].b))

----------------------------------------------------------------------------
(* Construction of the catalog, as one thread runs it to its end *)

NextBuild ==
    \/ AccessTargets
    \/ BuildLoop
    \/ FillParent
    \/ FillStore
    \/ BuildReturn

\* once the factory is called its statements run one after the other
BuildRuns == BuildLoop \/ FillParent \/ FillStore \/ BuildReturn

SpecBuild == Init /\ [][NextBuild]_vars /\ WF_vars(BuildRuns)

\* every named parent is an entry of the dataset, and no entry reaches itself
WellFormed ==
    /\ \A n \in DOMAIN data : DataParents(n) \subseteq DOMAIN data
    /\ \A n \in DOMAIN data : n \notin DataReach(n)

\* the step that inserts the entry n
Inserts(n) == n \notin DOMAIN btargets /\ n \in DOMAIN btargets'

\* at the insertion of n every name of its `from` is a key already, and the
\* parents of the new entity are the entities under those keys
ParentsExistAtInsertion ==
    \A n \in DOMAIN data :
        Inserts(n) =>
            LET names == parent_names(data[n])
            IN /\ Range(names) \subseteq DOMAIN btargets
               /\ btargets'[n].parents
                     = [i \in 1..Len(names) |-> btargets[names[i]]]
               /\ PyNone \notin Range(btargets'[n].parents)

BuildOutcome ==
    /\ bstate # "failed"
    /\ \A n \in AllNames : materialized[n] <= 1
    /\ bstate = "done" =>
          /\ DOMAIN data \subseteq DOMAIN targets.map
          /\ \A n \in DOMAIN data : materialized[n] = 1

\* C13: over a dataset in which every named parent is an entry and the
\* parent references are acyclic, at the step that inserts an entry every
\* parent named in its `from` is already in the catalog (its parents are
\* entities, never a missing placeholder); construction terminates, each
\* entry is materialized exactly once, and on completion every dataset name
\* is a catalog key.
C13_ParentsFirstAndTerminates ==
    /\ [][WellFormed => ParentsExistAtInsertion]_vars
    /\ [](WellFormed => BuildOutcome)
    /\ (WellFormed /\ bstate = "loop") ~> (bstate = "done")

C13_Witness ==
    /\ WellFormed
    /\ bstate = "done"
    /\ NamesOf(targets.map["zen"].parents) = <<"haswell", "x86_64">>
    /\ NamesOf(targets.map["haswell"].parents) = <<"x86_64">>
    /\ \A n \in DOMAIN data : materialized[n] = 1

----------------------------------------------------------------------------
(* The result of detect_host and the catalog *)

supported_target_names == DOMAIN targets.map

\* the entry construction makes of the dataset's values for the name n
DatasetEntry(n) == fill_entity(n, data[n], targets.map)

ResultIsKnown ==
    dpc = "done" =>
        /\ result[1].name \in supported_target_names
        /\ \/ InCatalog(result[1])
           \/ result[1] = generic_microarchitecture(machine)

HostPlatformInserted ==
    targets.built =>
        /\ machine \in supported_target_names
        /\ IF machine \in DOMAIN data
           THEN targets.map[machine] = DatasetEntry(machine)
           ELSE targets.map[machine] = generic_microarchitecture(machine)
        /\ \A n \in DOMAIN data : targets.map[n] = DatasetEntry(n)

\* C14: whenever detect_host() returns, the name of the result is a key of
\* the catalog: the result is a catalog entry or the generic entry of the
\* host machine type, whose name construction inserts without replacing a
\* dataset entry of that name; outside construction no step of detect_host
\* adds, removes or replaces a catalog entry.
C14_ResultNameIsCatalogKey ==
    /\ [](ResultIsKnown /\ HostPlatformInserted)
    /\ [][bstate # "loop" => targets' = targets]_vars

C14_Witness ==
    /\ dpc = "done"
    /\ machine = "riscv64"
    /\ machine \notin DOMAIN data
    /\ result[1] = generic_microarchitecture("riscv64")
    /\ "riscv64" \in supported_target_names
    /\ "haswell" \in supported_target_names

====
